---------------------------- MODULE Spec2Model ----------------------------
(***************************************************************************)
(* zaproll's Config.adjust (config normalisation) and nanozap's integer    *)
(* Field constructors.                                                     *)
(*                                                                         *)
(* Go's fixed-width integers are modelled bit-exactly as little-endian     *)
(* sequences of bytes (an int64 is 8 bytes, two's complement), so that the *)
(* unit multiplications, the doubling and the addition in alignToPage wrap *)
(* exactly as the compiled code does.                                      *)
(***************************************************************************)
EXTENDS Integers, Sequences, FiniteSets, TLC

VARIABLES raw,    \* the Config as the caller populated it
          c,      \* the Config object adjust() mutates in place
          prev,   \* the Config as it was before the latest adjust() call
          calls,  \* number of adjust() calls made on c
          arg,    \* the latest Field constructor call: [ctor, key, val]
          field   \* the Field that call returned

vars == <<raw, c, prev, calls, arg, field>>

\* How many times adjust() is called on one Config.
MaxCalls == 2

\* Bytes in an int64.
WordBytes == 8

-----------------------------------------------------------------------------
(* Fixed-width integer arithmetic on little-endian byte sequences.          *)

RECURSIVE NatBytes(_, _)
\* The n low bytes of the natural number v.
NatBytes(v, n) == IF n = 0 THEN <<>> ELSE <<v % 256>> \o NatBytes(v \div 256, n - 1)

RECURSIVE Carry(_, _, _)
\* Reduce every limb of s to a byte, carrying upward; the carry out of the
\* top byte is dropped (arithmetic modulo 2^(8*Len(s))).
Carry(s, i, cy) ==
    IF i > Len(s) THEN s
    ELSE LET t == s[i] + cy
         IN Carry([s EXCEPT ![i] = t % 256], i + 1, t \div 256)

Not64(x) == [i \in 1..Len(x) |-> 255 - x[i]]

Add64(x, y) == Carry([i \in 1..Len(x) |-> x[i] + y[i]], 1, 0)

\* A small integer literal as a two's-complement word of n bytes.
IntW(v, n) == IF v >= 0 THEN NatBytes(v, n) ELSE Not64(NatBytes(-v - 1, n))

I64(v) == IntW(v, WordBytes)

Neg64(x) == Add64(Not64(x), IntW(1, Len(x)))

Sub64(x, y) == Add64(x, Neg64(y))

RECURSIVE ColSum(_, _, _, _)
\* Sum of x[j] * y[i-j+1] for j in 1..jmax: column i of the schoolbook product.
ColSum(x, y, i, j) == IF j = 0 THEN 0 ELSE x[j] * y[i - j + 1] + ColSum(x, y, i, j - 1)

Mul64(x, y) == Carry([i \in 1..Len(x) |-> ColSum(x, y, i, i)], 1, 0)

RECURSIVE AndNotBits(_, _, _)
\* a &^ b on n-bit naturals.
AndNotBits(a, b, n) ==
    IF n = 0 THEN 0
    ELSE (IF a % 2 = 1 /\ b % 2 = 0 THEN 1 ELSE 0)
         + 2 * AndNotBits(a \div 2, b \div 2, n - 1)

AndNot64(x, y) == [i \in 1..Len(x) |-> AndNotBits(x[i], y[i], 8)]

IsNeg(x) == x[Len(x)] >= 128

RECURSIVE ULt(_, _, _)
\* Unsigned x < y, comparing from byte i downward.
ULt(x, y, i) ==
    IF i = 0 THEN FALSE
    ELSE IF x[i] # y[i] THEN x[i] < y[i]
    ELSE ULt(x, y, i - 1)

\* Signed comparisons of two words of the same width.
Lt64(x, y) == IF IsNeg(x) # IsNeg(y) THEN IsNeg(x) ELSE ULt(x, y, Len(x))

Le64(x, y) == ~Lt64(y, x)

\* Conversions between integer types: widening a signed value replicates
\* its sign bit, widening an unsigned value fills with zeros, narrowing
\* keeps the low bytes.
SignExtend(x, n) ==
    [i \in 1..n |-> IF i <= Len(x) THEN x[i] ELSE IF IsNeg(x) THEN 255 ELSE 0]

ZeroExtend(x, n) == [i \in 1..n |-> IF i <= Len(x) THEN x[i] ELSE 0]

Truncate(x, n) == [i \in 1..n |-> x[i]]

-----------------------------------------------------------------------------
(* zaproll Config                                                           *)

kb == I64(1024)

mb == Mul64(I64(1024), kb)

defaultPerWriteSize == Mul64(I64(64), kb)

\* Faulty variant of defaultPerSyncSize: 16 KB instead of 16 MB.
defaultPerSyncSizeInKb == Mul64(I64(16), kb)

defaultPerSyncSize == Mul64(I64(16), mb)

defaultMaxSize == Mul64(I64(128), mb)

defaultMaxBackups == 4

\* 1 << 12
pageSize == I64(4096)

alignToPage(n) ==
    AndNot64(Sub64(Add64(n, pageSize), I64(1)), Sub64(pageSize, I64(1)))

\* Faulty variant of units: the Developed override of k and m is missing.
unitsAlwaysScaled(cfg) == [k |-> kb, m |-> mb]

\* k, m := kb, mb; if c.Developed { k, m = 1, 1 }
units(cfg) ==
    IF cfg.Developed THEN [k |-> I64(1), m |-> I64(1)] ELSE [k |-> kb, m |-> mb]

\* Faulty variant of adjustMaxSize: a supplied MaxSize is not converted from MB.
adjustMaxSizeUnscaled(cfg, m) ==
    IF Le64(cfg.MaxSize, I64(0))
    THEN [cfg EXCEPT !.MaxSize = defaultMaxSize]
    ELSE cfg

adjustMaxSize(cfg, m) ==
    IF Le64(cfg.MaxSize, I64(0))
    THEN [cfg EXCEPT !.MaxSize = defaultMaxSize]
    ELSE [cfg EXCEPT !.MaxSize = Mul64(cfg.MaxSize, m)]

\* Faulty variant of adjustMaxBackups: compares against the default instead of 0.
adjustMaxBackupsBelowDefault(cfg) ==
    IF cfg.MaxBackups <= defaultMaxBackups
    THEN [cfg EXCEPT !.MaxBackups = defaultMaxBackups]
    ELSE cfg

adjustMaxBackups(cfg) ==
    IF cfg.MaxBackups <= 0
    THEN [cfg EXCEPT !.MaxBackups = defaultMaxBackups]
    ELSE cfg

adjustPerWriteSize(cfg, k) ==
    IF Le64(cfg.PerWriteSize, I64(0))
    THEN [cfg EXCEPT !.PerWriteSize = defaultPerWriteSize]
    ELSE [cfg EXCEPT !.PerWriteSize = Mul64(cfg.PerWriteSize, k)]

adjustPerSyncSize(cfg, m) ==
    IF Le64(cfg.PerSyncSize, I64(0))
    THEN [cfg EXCEPT !.PerSyncSize = defaultPerSyncSize]
    ELSE [cfg EXCEPT !.PerSyncSize = Mul64(cfg.PerSyncSize, m)]

\* if c.PerSyncSize < 2*c.PerWriteSize { c.PerSyncSize = 2 * c.PerWriteSize }
raiseSync(cfg) ==
    IF Lt64(cfg.PerSyncSize, Mul64(I64(2), cfg.PerWriteSize))
    THEN [cfg EXCEPT !.PerSyncSize = Mul64(I64(2), cfg.PerWriteSize)]
    ELSE cfg

alignSizes(cfg) ==
    [cfg EXCEPT !.MaxSize = alignToPage(cfg.MaxSize),
                !.PerWriteSize = alignToPage(cfg.PerWriteSize),
                !.PerSyncSize = alignToPage(cfg.PerSyncSize)]

\* Faulty variant of pageCacheControl: aligns before raising the sync size.
pageCacheControlAlignFirst(cfg) ==
    IF ~cfg.Developed THEN raiseSync(alignSizes(cfg)) ELSE cfg

\* Faulty variant of pageCacheControl: the Developed guard is missing.
pageCacheControlUnguarded(cfg) == alignSizes(raiseSync(cfg))

\* The block under "if !c.Developed".
pageCacheControl(cfg) ==
    IF ~cfg.Developed THEN alignSizes(raiseSync(cfg)) ELSE cfg

adjust(cfg) ==
    LET u == units(cfg) IN
    pageCacheControl(
        adjustPerSyncSize(
            adjustPerWriteSize(
                adjustMaxBackups(adjustMaxSize(cfg, u.m)), u.k), u.m))

-----------------------------------------------------------------------------
(* Raw configurations a caller can populate.                                *)

\* Raw MaxSize (MB): negative, unset, small, the default, and 2^43 whose
\* conversion to bytes is 2^63.
MaxSizeInputs ==
    {I64(-1), I64(0), I64(1), I64(9), I64(128),
     Mul64(I64(1048576), I64(8388608))}

\* Raw PerWriteSize (KB): negative, unset, small, not page-aligned after
\* conversion (1025), larger than the default sync size (16384), and
\* 2^52 + 3, 2^53 - 1 whose conversions are 2^62 + 3072 and 2^63 - 1024.
PerWriteSizeInputs ==
    {I64(-5), I64(0), I64(1), I64(3), I64(10), I64(1025), I64(2048), I64(16384),
     Add64(Mul64(I64(1073741824), I64(4194304)), I64(3)),
     Sub64(Mul64(I64(1073741824), I64(8388608)), I64(1))}

\* Raw PerSyncSize (MB).
PerSyncSizeInputs == {I64(-1), I64(0), I64(1), I64(3), I64(6), I64(64)}

MaxBackupsInputs == {-1, 0, 2, 7}

OutputPathInputs == {"app.log"}

ConfigInputs ==
    [OutputPath : OutputPathInputs,
     MaxSize : MaxSizeInputs,
     MaxBackups : MaxBackupsInputs,
     LocalTime : BOOLEAN,
     PerWriteSize : PerWriteSizeInputs,
     PerSyncSize : PerSyncSizeInputs,
     Developed : BOOLEAN]

NoCall == [ctor |-> "none"]

\* The zero value of Config.
ZeroConfig ==
    [OutputPath |-> "", MaxSize |-> I64(0), MaxBackups |-> 0, LocalTime |-> FALSE,
     PerWriteSize |-> I64(0), PerSyncSize |-> I64(0), Developed |-> FALSE]

Init ==
    /\ raw \in ConfigInputs
    /\ c = raw
    /\ prev = raw
    /\ calls = 0
    /\ arg = NoCall
    /\ field = NoCall

\* c.adjust()
Adjust ==
    /\ calls < MaxCalls
    /\ prev' = c
    /\ c' = adjust(c)
    /\ calls' = calls + 1
    /\ UNCHANGED <<raw, arg, field>>

Next == Adjust

Spec == Init /\ [][Next]_vars

-----------------------------------------------------------------------------
(* nanozap integer Field constructors.  A constructor's argument is the     *)
(* byte sequence of its Go type: 1, 2, 4 or 8 bytes; int, uint and uintptr  *)
(* are 4 or 8 bytes depending on the platform.                              *)

\* T(val) for integer types: a narrower or equal target keeps the low bytes,
\* a wider target extends by the signedness of the source type.
Convert(x, signed, n) ==
    IF n <= Len(x) THEN Truncate(x, n)
    ELSE IF signed THEN SignExtend(x, n) ELSE ZeroExtend(x, n)

\* Field{Key: key, Type: t, Integer: i}; the other slots keep zero values.
MkField(key, t, i) ==
    [Key |-> key, Type |-> t, Integer |-> i, String |-> "", Interface |-> "nil"]

Int64Field(key, val) == MkField(key, "Int64Type", val)

IntField(key, val) == Int64Field(key, Convert(val, TRUE, WordBytes))

Int32Field(key, val) == MkField(key, "Int32Type", Convert(val, TRUE, WordBytes))

Int16Field(key, val) == MkField(key, "Int16Type", Convert(val, TRUE, WordBytes))

Int8Field(key, val) == MkField(key, "Int8Type", Convert(val, TRUE, WordBytes))

\* Faulty variant of Uint64Field: values above the int64 range saturate.
Uint64FieldSaturating(key, val) ==
    MkField(key, "Uint64Type",
            IF IsNeg(val) THEN [i \in 1..WordBytes |-> IF i = WordBytes THEN 127 ELSE 255]
            ELSE Convert(val, FALSE, WordBytes))

Uint64Field(key, val) == MkField(key, "Uint64Type", Convert(val, FALSE, WordBytes))

UintField(key, val) == Uint64Field(key, Convert(val, FALSE, WordBytes))

Uint32Field(key, val) == MkField(key, "Uint32Type", Convert(val, FALSE, WordBytes))

Uint16Field(key, val) == MkField(key, "Uint16Type", Convert(val, FALSE, WordBytes))

Uint8Field(key, val) == MkField(key, "Uint8Type", Convert(val, FALSE, WordBytes))

UintptrField(key, val) == MkField(key, "UintptrType", Convert(val, FALSE, WordBytes))

Keys == {"", "k"}

\* Sizes in bytes of int, uint and uintptr on 32-bit and 64-bit platforms.
PlatformSizes == {4, WordBytes}

\* Argument values of an n-byte integer type: 0, 1, 200, all bits set,
\* only the top bit set, all but the top bit set.
Values(n) ==
    {IntW(0, n), IntW(1, n), IntW(200, n), IntW(-1, n),
     [i \in 1..n |-> IF i = n THEN 128 ELSE 0],
     [i \in 1..n |-> IF i = n THEN 127 ELSE 255]}

CallInt ==
    \E key \in Keys, n \in PlatformSizes : \E v \in Values(n) :
        /\ arg' = [ctor |-> "Int", key |-> key, val |-> v]
        /\ field' = IntField(key, v)
        /\ UNCHANGED <<raw, c, prev, calls>>

CallInt64 ==
    \E key \in Keys, n \in {8} : \E v \in Values(n) :
        /\ arg' = [ctor |-> "Int64", key |-> key, val |-> v]
        /\ field' = Int64Field(key, v)
        /\ UNCHANGED <<raw, c, prev, calls>>

CallInt32 ==
    \E key \in Keys, n \in {4} : \E v \in Values(n) :
        /\ arg' = [ctor |-> "Int32", key |-> key, val |-> v]
        /\ field' = Int32Field(key, v)
        /\ UNCHANGED <<raw, c, prev, calls>>

CallInt16 ==
    \E key \in Keys, n \in {2} : \E v \in Values(n) :
        /\ arg' = [ctor |-> "Int16", key |-> key, val |-> v]
        /\ field' = Int16Field(key, v)
        /\ UNCHANGED <<raw, c, prev, calls>>

CallInt8 ==
    \E key \in Keys, n \in {1} : \E v \in Values(n) :
        /\ arg' = [ctor |-> "Int8", key |-> key, val |-> v]
        /\ field' = Int8Field(key, v)
        /\ UNCHANGED <<raw, c, prev, calls>>

CallUint ==
    \E key \in Keys, n \in PlatformSizes : \E v \in Values(n) :
        /\ arg' = [ctor |-> "Uint", key |-> key, val |-> v]
        /\ field' = UintField(key, v)
        /\ UNCHANGED <<raw, c, prev, calls>>

CallUint64 ==
    \E key \in Keys, n \in {8} : \E v \in Values(n) :
        /\ arg' = [ctor |-> "Uint64", key |-> key, val |-> v]
        /\ field' = Uint64Field(key, v)
        /\ UNCHANGED <<raw, c, prev, calls>>

CallUint32 ==
    \E key \in Keys, n \in {4} : \E v \in Values(n) :
        /\ arg' = [ctor |-> "Uint32", key |-> key, val |-> v]
        /\ field' = Uint32Field(key, v)
        /\ UNCHANGED <<raw, c, prev, calls>>

CallUint16 ==
    \E key \in Keys, n \in {2} : \E v \in Values(n) :
        /\ arg' = [ctor |-> "Uint16", key |-> key, val |-> v]
        /\ field' = Uint16Field(key, v)
        /\ UNCHANGED <<raw, c, prev, calls>>

CallUint8 ==
    \E key \in Keys, n \in {1} : \E v \in Values(n) :
        /\ arg' = [ctor |-> "Uint8", key |-> key, val |-> v]
        /\ field' = Uint8Field(key, v)
        /\ UNCHANGED <<raw, c, prev, calls>>

CallUintptr ==
    \E key \in Keys, n \in PlatformSizes : \E v \in Values(n) :
        /\ arg' = [ctor |-> "Uintptr", key |-> key, val |-> v]
        /\ field' = UintptrField(key, v)
        /\ UNCHANGED <<raw, c, prev, calls>>

FieldInit ==
    /\ raw = ZeroConfig
    /\ c = ZeroConfig
    /\ prev = ZeroConfig
    /\ calls = 0
    /\ arg = NoCall
    /\ field = NoCall

FieldNext ==
    \/ CallInt
    \/ CallInt64
    \/ CallInt32
    \/ CallInt16
    \/ CallInt8
    \/ CallUint
    \/ CallUint64
    \/ CallUint32
    \/ CallUint16
    \/ CallUint8
    \/ CallUintptr

SpecField == FieldInit /\ [][FieldNext]_vars

-----------------------------------------------------------------------------
(* Exact (unbounded) integer reading of int64 values, used to state the     *)
(* claims: 12-byte words hold every sum and product below without wrap.     *)

Wide(x) == SignExtend(x, 12)

\* Exact x <= y and x < y of two int64 values or exact expressions.
LeExact(x, y) == Le64(x, y)

LtExact(x, y) == Lt64(x, y)

\* Exact 2 * x and x + 4096 of an int64 x.
TwiceExact(x) == Add64(Wide(x), Wide(x))

Plus4096Exact(x) == Add64(Wide(x), IntW(4096, 12))

MultipleOf4096(x) == x[1] = 0 /\ x[2] % 16 = 0

Positive(x) == Lt64(I64(0), x)

\* The largest int64 and the largest value alignToPage can round up
\* without leaving int64: 2^63 - 1 and 2^63 - 4096.
MaxInt64 == [i \in 1..8 |-> IF i = 8 THEN 127 ELSE 255]

MaxAlignable == Sub64(MaxInt64, I64(4095))

\* The documented defaults in bytes.
DocMaxSize == I64(134217728)

DocPerWriteSize == I64(65536)

DocPerSyncSize == I64(16777216)

\* Unit factors the raw values are scaled by: MB and KB outside relaxed
\* mode, 1 in relaxed mode.
RawM == IF raw.Developed THEN I64(1) ELSE I64(1048576)

RawK == IF raw.Developed THEN I64(1) ELSE I64(1024)

\* Thresholds after defaulting and unit conversion, before the sync-vs-flush
\* adjustment and before alignment, in int64 arithmetic.
PreMaxSize ==
    IF Positive(raw.MaxSize) THEN Mul64(raw.MaxSize, RawM) ELSE DocMaxSize

PrePerWriteSize ==
    IF Positive(raw.PerWriteSize) THEN Mul64(raw.PerWriteSize, RawK) ELSE DocPerWriteSize

PrePerSyncSize ==
    IF Positive(raw.PerSyncSize) THEN Mul64(raw.PerSyncSize, RawM) ELSE DocPerSyncSize

\* The same three thresholds as exact integers (no wrap).
ExactMaxSize ==
    IF Positive(raw.MaxSize) THEN Mul64(Wide(raw.MaxSize), Wide(RawM)) ELSE Wide(DocMaxSize)

ExactPerWriteSize ==
    IF Positive(raw.PerWriteSize) THEN Mul64(Wide(raw.PerWriteSize), Wide(RawK))
    ELSE Wide(DocPerWriteSize)

ExactPerSyncSize ==
    IF Positive(raw.PerSyncSize) THEN Mul64(Wide(raw.PerSyncSize), Wide(RawM))
    ELSE Wide(DocPerSyncSize)

\* The sync threshold after the sync-vs-flush adjustment, before alignment.
PreSyncAdjusted ==
    IF Lt64(PrePerSyncSize, Mul64(I64(2), PrePerWriteSize))
    THEN Mul64(I64(2), PrePerWriteSize)
    ELSE PrePerSyncSize

\* The smallest multiple of 4096 that is >= pre, both read exactly.
SmallestMultipleAtLeast(eff, pre) ==
    /\ MultipleOf4096(eff)
    /\ LeExact(Wide(pre), Wide(eff))
    /\ LtExact(Wide(eff), Plus4096Exact(pre))

Adjusted == calls = 1

-----------------------------------------------------------------------------
(* Claims                                                                   *)

\* C1: after adjust(), in relaxed and non-relaxed mode alike, the effective
\* PerSyncSize is at least twice the effective PerWriteSize.
C1_SyncAtLeastTwiceWrite ==
    Adjusted => LeExact(TwiceExact(c.PerWriteSize), Wide(c.PerSyncSize))

\* C2: after adjust() the effective MaxSize is at least the effective
\* PerWriteSize, for every combination of raw MaxSize and raw PerWriteSize.
C2_MaxSizeAtLeastPerWrite ==
    Adjusted => Le64(c.PerWriteSize, c.MaxSize)

\* C2 (amended): after adjust() the effective MaxSize is at least the
\* effective PerWriteSize whenever the exact pre-alignment rotation
\* threshold is at least the exact pre-alignment flush threshold and both
\* are at most 2^63 - 4096 (in particular when both fields are defaulted).
C2_OrderKeptWhenPreOrdered ==
    (/\ Adjusted
     /\ LeExact(ExactPerWriteSize, ExactMaxSize)
     /\ LeExact(ExactMaxSize, Wide(MaxAlignable)))
    => Le64(c.PerWriteSize, c.MaxSize)

\* C2 witness: both values supplied, the flush threshold rounded up by
\* alignment, and the order kept.
C2_Witness ==
    /\ Adjusted
    /\ ~raw.Developed
    /\ raw.MaxSize = I64(9)
    /\ raw.PerWriteSize = I64(1025)
    /\ c.PerWriteSize # PrePerWriteSize
    /\ Lt64(c.PerWriteSize, c.MaxSize)

\* C3: a second adjust() leaves every field as the first call left it.
C3_Idempotent ==
    calls = 2 => c = prev

\* C3 (amended): in relaxed mode (Developed = true) a further adjust() leaves
\* every field as the previous call left it.
C3_IdempotentWhenDeveloped ==
    (calls >= 2 /\ raw.Developed) => c = prev

\* C3 witness: a relaxed config whose first adjust() changed it (defaults
\* filled in) and whose second adjust() changed nothing.
C3_Witness ==
    /\ calls = 2
    /\ raw.Developed
    /\ prev # raw
    /\ c = prev

\* C4: outside relaxed mode, after adjust() each size threshold is the
\* smallest multiple of 4096 that is >= its pre-alignment value.
C4_AlignedUpToSmallestMultiple ==
    (Adjusted /\ ~raw.Developed) =>
        /\ SmallestMultipleAtLeast(c.MaxSize, PreMaxSize)
        /\ SmallestMultipleAtLeast(c.PerWriteSize, PrePerWriteSize)
        /\ SmallestMultipleAtLeast(c.PerSyncSize, PreSyncAdjusted)

\* C5: after adjust(), MaxSize, PerWriteSize, PerSyncSize and MaxBackups are
\* strictly positive for every raw Config.
C5_AllPositive ==
    Adjusted =>
        /\ Positive(c.MaxSize)
        /\ Positive(c.PerWriteSize)
        /\ Positive(c.PerSyncSize)
        /\ c.MaxBackups > 0

\* C6: a field that is unset, zero or negative in the raw Config has its
\* documented default as its effective value after adjust(), whatever the
\* other fields are, in relaxed and non-relaxed mode alike.
C6_DefaultIsEffective ==
    Adjusted =>
        /\ ~Positive(raw.MaxSize) => c.MaxSize = DocMaxSize
        /\ ~Positive(raw.PerWriteSize) => c.PerWriteSize = DocPerWriteSize
        /\ ~Positive(raw.PerSyncSize) => c.PerSyncSize = DocPerSyncSize
        /\ raw.MaxBackups <= 0 => c.MaxBackups = 4

\* C6 (amended): as C6, except that outside relaxed mode a defaulted
\* PerSyncSize is the effective value only when 16 MiB is not below
\* 2 * PerWriteSize (pre-alignment, int64 arithmetic); otherwise the
\* effective PerSyncSize is alignToPage(2 * PerWriteSize).
C6_DefaultIsEffectiveUnlessRaised ==
    Adjusted =>
        /\ ~Positive(raw.MaxSize) => c.MaxSize = DocMaxSize
        /\ ~Positive(raw.PerWriteSize) => c.PerWriteSize = DocPerWriteSize
        /\ ~Positive(raw.PerSyncSize) =>
              IF raw.Developed \/ ~Lt64(DocPerSyncSize, Mul64(I64(2), PrePerWriteSize))
              THEN c.PerSyncSize = DocPerSyncSize
              ELSE /\ MultipleOf4096(c.PerSyncSize)
                   /\ c.PerSyncSize # DocPerSyncSize
                   /\ Sub64(c.PerSyncSize, Mul64(I64(2), PrePerWriteSize))
                        \in {I64(0), I64(2048)}
        /\ raw.MaxBackups <= 0 => c.MaxBackups = 4

\* C6 witness: every field defaulted, in non-relaxed mode.
C6_Witness ==
    /\ Adjusted
    /\ ~raw.Developed
    /\ ~Positive(raw.MaxSize)
    /\ ~Positive(raw.PerWriteSize)
    /\ ~Positive(raw.PerSyncSize)
    /\ raw.MaxBackups <= 0
    /\ c.PerSyncSize = DocPerSyncSize
    /\ c.MaxBackups = 4

C8_DevelopedKeepsPositiveSizes ==
    (Adjusted /\ raw.Developed) =>
        /\ Positive(raw.MaxSize) => c.MaxSize = raw.MaxSize
        /\ Positive(raw.PerWriteSize) => c.PerWriteSize = raw.PerWriteSize
        /\ Positive(raw.PerSyncSize) => c.PerSyncSize = raw.PerSyncSize

\* C8 witness: flush = 3, sync = 6, rotation = 9 in relaxed mode is still
\* 3, 6, 9 after adjust().
C8_Witness ==
    /\ Adjusted
    /\ raw.Developed
    /\ raw.PerWriteSize = I64(3) /\ raw.PerSyncSize = I64(6) /\ raw.MaxSize = I64(9)
    /\ c.PerWriteSize = I64(3) /\ c.PerSyncSize = I64(6) /\ c.MaxSize = I64(9)

\* C9: adjust() leaves OutputPath, LocalTime and Developed as they were, and
\* leaves a strictly positive MaxBackups unchanged.
C9_FrameOfAdjust ==
    calls >= 1 =>
        /\ c.OutputPath = prev.OutputPath
        /\ c.LocalTime = prev.LocalTime
        /\ c.Developed = prev.Developed
        /\ prev.MaxBackups > 0 => c.MaxBackups = prev.MaxBackups

\* C9 witness: an adjust() that changed the size thresholds of a Config with
\* LocalTime set and MaxBackups = 2, and kept both.
C9_Witness ==
    /\ Adjusted
    /\ raw.LocalTime
    /\ raw.MaxBackups = 2
    /\ c.MaxBackups = 2
    /\ c.LocalTime
    /\ c.MaxSize # raw.MaxSize

\* C10: every integer Field constructor returns a Field with the given key
\* whose Integer slot converts back to the argument exactly; Int returns
\* the Field Int64 returns for the widened value, Uint the Field Uint64
\* returns.
C10_IntegerFieldsLossless ==
    arg.ctor # "none" =>
        /\ field.Key = arg.key
        /\ Truncate(field.Integer, Len(arg.val)) = arg.val
        /\ Len(field.Integer) = 8
        /\ arg.ctor = "Int" =>
             field = [Key |-> arg.key, Type |-> "Int64Type",
                      Integer |-> SignExtend(arg.val, 8),
                      String |-> "", Interface |-> "nil"]
        /\ arg.ctor = "Uint" =>
             field = [Key |-> arg.key, Type |-> "Uint64Type",
                      Integer |-> ZeroExtend(arg.val, 8),
                      String |-> "", Interface |-> "nil"]

\* C10 witness: Uint64 of a value >= 2^63 is stored as a negative int64 and
\* converts back to the argument.
C10_Witness ==
    /\ arg.ctor = "Uint64"
    /\ IsNeg(arg.val)
    /\ IsNeg(field.Integer)
    /\ Truncate(field.Integer, Len(arg.val)) = arg.val

=============================================================================
